---- MODULE Spec2Model ----
(***************************************************************************)
(* Model of backend/app/services/live_satellite_service.py:                *)
(* LiveSatelliteService.fetch_satellite_region (parallel tile download and *)
(* stitching) and its caller get_live_satellite_data (Spec); of            *)
(* backend/app/services/analysis_service.py with the model global of       *)
(* backend/app/models/resnet.py (SpecAnalysis); and of the heat-field      *)
(* synthesis of the design document, section 4.5, for which the repository *)
(* holds no code (SpecHeat).                                               *)
(* SpecOrder follows the same fetch with the order in which the downloads  *)
(* end recorded; SpecProject models the Mercator projection                *)
(* _project_with_scale and the tile range derived from it; SpecRoutes      *)
(* models backend/app/api/routes.py (upload, background task, cleanup) on  *)
(* task_storage; SpecWait and SpecWaitFair model                           *)
(* TwelveLabsClient.wait_for_processing of                                 *)
(* backend/app/services/twelve_labs_client.py.                             *)
(*                                                                         *)
(* In Spec one behaviour is one request.  The corners of the bounding box are given*)
(* as projected positions lying on the pixel grid (proj = p / tile_size),  *)
(* so that int(proj * tile_size) = p and int(proj) = p / tile_size         *)
(* truncated toward zero, as Python's int() does.  Positions left of or    *)
(* above the grid origin are included: _project_with_scale yields negative *)
(* y beyond latitude 85.05 and negative x west of longitude -180.          *)
(***************************************************************************)
EXTENDS Integers, Sequences, FiniteSets, TLC

\* ---------------------------------------------------------------- bounds
TileSize == 3      \* self.tile_size, scaled down from 256
MaxPix == 4        \* largest projected pixel coordinate of a corner
NegPix == 3        \* corners range over -NegPix .. MaxPix
MaxTiles == 4      \* largest covering range (number of tiles) explored

\* ---------------------------------------------------------------- constants
Channels == 3      \* self.channels

VARIABLES
    caller,        \* which public coroutine the request entered
    tl_pixel_x, tl_pixel_y, br_pixel_x, br_pixel_y,
    pc,            \* "called", "gather", "done"
    tasks,         \* download_tasks / results: k -> "pending" | "image" | "None" | "cancelled"
    latest,        \* where the order of completion is recorded (SpecOrder):
                   \* the download that ended last, 0 while none has ended
    img,           \* the canvas: <<x, y>> -> pixel
    writes,        \* history of line 154: <<x, y>> -> sequence of tiles copied there
    ret,           \* what the entered coroutine gave back
    report,        \* the dict get_live_satellite_data returns
    disk,          \* files and directories on disk
    stages,        \* processing stages run so far, in order
    \* analysis_service.py and models/resnet.py
    a_pc,          \* "off", "boot", "ready", "returned", "raised", "import_failed"
    a_image,       \* the array passed to the function under analysis
    a_weights,     \* the weights of the loaded segmentation model, -1 before the load
    a_out,         \* what the last call returned
    a_calls,       \* calls of analyze_image made so far in this process
    model_builds,  \* times build_inception_resnetv2_unet ran
    model_loads,   \* times load_weights ran
    \* heat-field synthesis
    h_pc,          \* "off", "called", "returned", "config_error", "compared"
    h_masks,       \* the building and the vegetation mask
    h_params,      \* method, sigma_build, sigma_veg, w_build, w_veg
    h_field,       \* the synthesized field
    h_swapped,     \* the field synthesized from the swapped masks and weights
    \* the projection of a bounding box (lines 84-124 of the tile service)
    proj_pc,       \* "off", "called", "projected", "rejected", "requested"
    proj_in,       \* caller, north_lat, west_lon, south_lat, east_lon, zoom
    proj_out,      \* projected corners, their pixels and tiles, tiles requested
    \* api/routes.py: the task store and the background task
    task_storage,  \* task id -> entry
    upload_files,  \* task ids whose uploaded file is on disk
    background,    \* task id -> "none", "scheduled", "finished", "unhandled"
    response,      \* the last response of a route: handler, task id, status code
    \* twelve_labs_client.py: wait_for_processing
    w_pc,          \* "off", "poll", "sleep", "returned", "raised"
    w_max_wait,    \* max_wait_time
    w_elapsed,     \* time since start_time
    w_status,      \* what the last check_task_status returned
    w_polls,       \* calls of check_task_status so far
    w_result       \* the value returned or the exception raised

fetchVars == <<caller, tl_pixel_x, tl_pixel_y, br_pixel_x, br_pixel_y, pc, tasks,
               latest, img, writes, ret, report, disk, stages>>
analysisVars == <<a_pc, a_image, a_weights, a_out, a_calls, model_builds, model_loads>>
heatVars == <<h_pc, h_masks, h_params, h_field, h_swapped>>

projVars == <<proj_pc, proj_in, proj_out>>
routeVars == <<task_storage, upload_files, background, response>>
waitVars == <<w_pc, w_max_wait, w_elapsed, w_status, w_polls, w_result>>

vars == <<fetchVars, analysisVars, heatVars, projVars, routeVars, waitVars>>

Max(a, b) == IF a >= b THEN a ELSE b
Min(a, b) == IF a <= b THEN a ELSE b
Abs(a) == IF a >= 0 THEN a ELSE -a

\* Python's int() on the quotient a / b: truncation toward zero.
PyInt(a, b) == IF a >= 0 THEN a \div b ELSE -((-a) \div b)

\* len(range(a, b + 1))
RangeLen(a, b) == IF b >= a THEN b - a + 1 ELSE 0

PixRange == (-NegPix)..MaxPix
Callers == {"fetch_satellite_region", "get_live_satellite_data"}

\* ------------------------------------------------ lines 97-105: geometry
tl_tile_x == PyInt(tl_pixel_x, TileSize)
tl_tile_y == PyInt(tl_pixel_y, TileSize)
br_tile_x == PyInt(br_pixel_x, TileSize)
br_tile_y == PyInt(br_pixel_y, TileSize)

img_w == Abs(tl_pixel_x - br_pixel_x)
img_h == br_pixel_y - tl_pixel_y

InvalidDimensions == img_w <= 0 \/ img_h <= 0

Canvas == (0..(img_w - 1)) \X (0..(img_h - 1))

\* lines 119-124: one task per tile of the covering range, rows outermost
TilesAcross == RangeLen(tl_tile_x, br_tile_x)
TilesDown == RangeLen(tl_tile_y, br_tile_y)
NumTasks == TilesAcross * TilesDown
\* mutant: every task of a row asks for the row's first tile
Mut_TaskTileX(k) == tl_tile_x
TaskTileX(k) == tl_tile_x + ((k - 1) % TilesAcross)
TaskTileY(k) == tl_tile_y + ((k - 1) \div TilesAcross)

\* ------------------------------------------------ pixels
Zero == [c \in 1..Channels |-> 0]

\* The image the tile provider serves for tile (tx, ty): every pixel of
\* every tile is different, and none is black.
TilePixel(tx, ty, col, row) == <<tx, ty, 1 + row * TileSize + col>>

NoImage == [p \in {} |-> Zero]
NoWrites == [p \in {} |-> <<>>]
NoTasks == [k \in {} |-> "pending"]
NoReport == [keys |-> {}, image_dimensions |-> <<0, 0>>,
             analysis_method |-> "", storage_used |-> FALSE]

\* ------------------------------------------------ numpy slicing
\* a[l:r] on an axis of length n: negative indices count from the end,
\* both ends are clipped to 0..n.
SliceIndex(i, n) == IF i < 0 THEN Max(i + n, 0) ELSE Min(i, n)
SliceStart(l, r, n) == SliceIndex(l, n)
SliceLen(l, r, n) == Max(0, SliceIndex(r, n) - SliceIndex(l, n))

\* dst[...] = src broadcasts src: each axis of src has the length of dst's or 1.
Broadcastable(srcLen, dstLen) == srcLen = dstLen \/ srcLen = 1

\* ------------------------------------------------ lines 135-151: rectangles
\* mutant: the tile is placed relative to the first tile, not to the corner pixel
Mut_tl_rel_x(k) == (TaskTileX(k) - tl_tile_x) * TileSize
tl_rel_x(k) == TaskTileX(k) * TileSize - tl_pixel_x
tl_rel_y(k) == TaskTileY(k) * TileSize - tl_pixel_y
br_rel_x(k) == tl_rel_x(k) + TileSize
br_rel_y(k) == tl_rel_y(k) + TileSize

img_x_l(k) == Max(0, tl_rel_x(k))
img_x_r(k) == Min(img_w, br_rel_x(k))
img_y_l(k) == Max(0, tl_rel_y(k))
img_y_r(k) == Min(img_h, br_rel_y(k))

cr_x_l(k) == Max(0, -tl_rel_x(k))
cr_x_r(k) == TileSize + Min(0, img_w - br_rel_x(k))
cr_y_l(k) == Max(0, -tl_rel_y(k))
cr_y_r(k) == TileSize + Min(0, img_h - br_rel_y(k))

\* The two sides of line 154 as index ranges: first index and length.
DstX0(k) == SliceStart(img_x_l(k), img_x_r(k), img_w)
DstW(k) == SliceLen(img_x_l(k), img_x_r(k), img_w)
DstY0(k) == SliceStart(img_y_l(k), img_y_r(k), img_h)
DstH(k) == SliceLen(img_y_l(k), img_y_r(k), img_h)
\* mutant: the copy always starts at the tile's left edge
Mut_SrcX0(k) == 0
SrcX0(k) == SliceStart(cr_x_l(k), cr_x_r(k), TileSize)
SrcW(k) == SliceLen(cr_x_l(k), cr_x_r(k), TileSize)
SrcY0(k) == SliceStart(cr_y_l(k), cr_y_r(k), TileSize)
SrcH(k) == SliceLen(cr_y_l(k), cr_y_r(k), TileSize)

\* line 154 raises ValueError when the shapes cannot be broadcast
CopyFits(k) == Broadcastable(SrcH(k), DstH(k)) /\ Broadcastable(SrcW(k), DstW(k))

\* lines 131-154 for result k; acc is the loop's state.  Canvas position
\* <<x, y>> of the destination slice receives the tile pixel at the same
\* offset of the source slice (offset 0 along an axis that is broadcast).
PlaceTile(k, results, acc) ==
    IF results[k] # "image" THEN acc
    ELSE IF ~CopyFits(k)
    THEN [acc EXCEPT !.tiles_downloaded = @ + 1, !.raised = TRUE]
    ELSE LET tx == TaskTileX(k)
             ty == TaskTileY(k)
             dx0 == DstX0(k)
             dx1 == DstX0(k) + DstW(k)
             dy0 == DstY0(k)
             dy1 == DstY0(k) + DstH(k)
             sx0 == SrcX0(k)
             sy0 == SrcY0(k)
             sw == SrcW(k)
             sh == SrcH(k)
             Inside(p) == dx0 <= p[1] /\ p[1] < dx1 /\ dy0 <= p[2] /\ p[2] < dy1
             Source(p) == TilePixel(tx, ty,
                                    sx0 + (IF sw = 1 THEN 0 ELSE p[1] - dx0),
                                    sy0 + (IF sh = 1 THEN 0 ELSE p[2] - dy0))
         IN  [acc EXCEPT
                !.tiles_downloaded = @ + 1,
                !.img = [p \in Canvas |-> IF Inside(p) THEN Source(p) ELSE @[p]],
                !.writes = [p \in Canvas |->
                               IF Inside(p) THEN Append(@[p], <<tx, ty>>) ELSE @[p]]]

\* lines 129-154: the loop over results, in the order of download_tasks
RECURSIVE StitchFrom(_, _, _)
StitchFrom(k, results, acc) ==
    IF k > NumTasks \/ acc.raised THEN acc
    ELSE StitchFrom(k + 1, results, PlaceTile(k, results, acc))

\* line 112 and the loop
Stitch(results) ==
    StitchFrom(1, results,
               [img |-> [p \in Canvas |-> Zero],
                writes |-> [p \in Canvas |-> <<>>],
                tiles_downloaded |-> 0,
                raised |-> FALSE])

\* ------------------------------------------------ files
ImageDir == "satellite_images/"
RegionFile == "satellite_images/satellite_<north>_<west>_to_<south>_<east>.png"
MaskFile == "satellite_images/vegetation_mask_<lat>_<lon>.png"
OverlayFile == "satellite_images/vegetation_overlay_<lat>_<lon>.png"

\* lines 158-166: the stitched image is written to disk when a tile arrived
SaveRegion(tiles_downloaded, files) ==
    IF tiles_downloaded > 0 THEN files \cup {RegionFile} ELSE files

\* lines 210-223: the mask and the overlay are written to disk
SaveVegetation(files) == files \cup {MaskFile, OverlayFile}

\* line 168, and ValueError leaving the coroutine from line 154
FetchOutcome(s) ==
    IF s.raised THEN "raised"
    ELSE IF s.tiles_downloaded > 0 THEN "ndarray" ELSE "None"

\* lines 282-322
ReportKeys == {"coordinates", "analysis_region", "satellite_imagery",
               "vegetation_data", "thermal_estimate", "urban_analysis",
               "processing_info"}
Report(vegOk) ==
    [keys |-> ReportKeys,
     image_dimensions |-> <<img_w, img_h>>,
     analysis_method |-> IF vegOk THEN "color_based_hsv" ELSE "failed",
     storage_used |-> FALSE]

\* mutant: the estimate is computed before the analysis it depends on
Mut_LiveStages == <<"fetch_satellite_region", "thermal_estimate",
                    "_analyze_vegetation_simple">>
\* lines 270-280: the stages get_live_satellite_data runs on the mosaic
LiveStages == <<"fetch_satellite_region", "_analyze_vegetation_simple",
                "thermal_estimate">>

\* mutant: the wait ends with the first download that returns
Mut_Settled(t) == \E k \in DOMAIN t : t[k] \in {"image", "None"}
\* line 127: gather returns when every download has returned
Settled(t) == \A k \in DOMAIN t : t[k] \in {"image", "None"}

\* mutant: the results are taken as they arrive, the one that ended last
\* is stored last
Mut_GatherResults(t, last) ==
    IF last = 0 THEN t
    ELSE [k \in DOMAIN t |-> IF k = Len(t) THEN t[last]
                             ELSE IF k = last THEN t[Len(t)] ELSE t[k]]
\* line 127: gather returns the results in the order of download_tasks,
\* whichever download ended last
GatherResults(t, last) == t

\* mutant: the downloads are left running when the wait is cancelled
Mut_CancelPending(t) == t
\* asyncio.gather, cancelled while awaited, cancels the awaitables not yet done
CancelPending(t) ==
    [k \in DOMAIN t |-> IF t[k] = "pending" THEN "cancelled" ELSE t[k]]

\* ------------------------------------------------ the other components at rest
\* a numpy array: its shape and its elements by <<row, column>>
NoArr == [shape |-> <<>>, px |-> [p \in {} |-> 0]]
NoOutput == [op |-> "", image |-> NoArr, vegetation_mask |-> NoArr,
             building_mask |-> NoArr]
AnalysisOff ==
    /\ a_pc = "off"
    /\ a_image = NoArr
    /\ a_weights = -1
    /\ a_out = NoOutput
    /\ a_calls = 0
    /\ model_builds = 0
    /\ model_loads = 0

NoParams == [method |-> "", sigma_build |-> 0, sigma_veg |-> 0,
             w_build |-> 0, w_veg |-> 0]
NoMasks == [building |-> <<>>, vegetation |-> <<>>]
HeatOff ==
    /\ h_pc = "off"
    /\ h_masks = NoMasks
    /\ h_params = NoParams
    /\ h_field = <<>>
    /\ h_swapped = <<>>

NoBox == [caller |-> "", north_lat |-> 0, west_lon |-> 0, south_lat |-> 0,
          east_lon |-> 0, zoom |-> 0]
NoProjection == [tl_proj |-> <<>>, br_proj |-> <<>>, tl_pixel |-> <<>>,
                 br_pixel |-> <<>>, tl_tile |-> <<>>, br_tile |-> <<>>,
                 requested |-> {}]
ProjectOff ==
    /\ proj_pc = "off"
    /\ proj_in = NoBox
    /\ proj_out = NoProjection

NoResponse == [handler |-> "", task_id |-> 0, code |-> 0]
RoutesOff ==
    /\ task_storage = <<>>
    /\ upload_files = {}
    /\ background = <<>>
    /\ response = NoResponse

WaitOff ==
    /\ w_pc = "off"
    /\ w_max_wait = 0
    /\ w_elapsed = 0
    /\ w_status = ""
    /\ w_polls = 0
    /\ w_result = ""

\* ------------------------------------------------ the request
\* __init__ (lines 28-50) has run: the image directory exists.  A request
\* enters through one of the two public coroutines; get_live_satellite_data
\* (lines 255-258) passes (lat + r, lon - r) and (lat - r, lon + r), which
\* project in the same order on both axes.
Init ==
    /\ caller \in Callers
    /\ tl_pixel_x \in PixRange
    /\ tl_pixel_y \in PixRange
    /\ br_pixel_x \in PixRange
    /\ br_pixel_y \in PixRange
    /\ caller = "get_live_satellite_data" =>
          \/ tl_pixel_x <= br_pixel_x /\ tl_pixel_y <= br_pixel_y
          \/ tl_pixel_x >= br_pixel_x /\ tl_pixel_y >= br_pixel_y
    /\ NumTasks <= MaxTiles
    /\ pc = "called"
    /\ tasks = NoTasks
    /\ latest = 0
    /\ img = NoImage
    /\ writes = NoWrites
    /\ ret = "running"
    /\ report = NoReport
    /\ disk = {ImageDir}
    /\ stages = <<>>
    /\ AnalysisOff
    /\ HeatOff
    /\ ProjectOff
    /\ RoutesOff
    /\ WaitOff

\* lines 107-109 (and 265-267 for get_live_satellite_data)
RejectBox ==
    /\ pc = "called"
    /\ InvalidDimensions
    /\ pc' = "done"
    /\ ret' = "None"
    /\ stages' = <<"fetch_satellite_region">>
    /\ UNCHANGED <<analysisVars, heatVars, projVars, routeVars, waitVars>>
    /\ UNCHANGED <<caller, latest, tl_pixel_x, tl_pixel_y, br_pixel_x, br_pixel_y,
                   tasks, img, writes, report, disk>>

\* lines 112-168 when the covering range is empty: gather() of nothing
\* completes at once, no tile was downloaded
EmptyRange ==
    /\ pc = "called"
    /\ ~InvalidDimensions
    /\ NumTasks = 0
    /\ pc' = "done"
    /\ ret' = "None"
    /\ stages' = <<"fetch_satellite_region">>
    /\ UNCHANGED <<analysisVars, heatVars, projVars, routeVars, waitVars>>
    /\ UNCHANGED <<caller, latest, tl_pixel_x, tl_pixel_y, br_pixel_x, br_pixel_y,
                   tasks, img, writes, report, disk>>

\* lines 112-127: the canvas is allocated, every download is handed to gather
StartDownloads ==
    /\ pc = "called"
    /\ ~InvalidDimensions
    /\ NumTasks > 0
    /\ pc' = "gather"
    /\ tasks' = [k \in 1..NumTasks |-> "pending"]
    /\ img' = [p \in Canvas |-> Zero]
    /\ writes' = [p \in Canvas |-> <<>>]
    /\ UNCHANGED <<analysisVars, heatVars, projVars, routeVars, waitVars>>
    /\ UNCHANGED <<caller, latest, tl_pixel_x, tl_pixel_y, br_pixel_x, br_pixel_y,
                   ret, report, disk, stages>>

\* lines 64-69: status 200 and a decodable image
DownloadOk(k) ==
    /\ pc = "gather"
    /\ tasks[k] = "pending"
    /\ tasks' = [tasks EXCEPT ![k] = "image"]
    /\ UNCHANGED <<analysisVars, heatVars, projVars, routeVars, waitVars>>
    /\ UNCHANGED <<caller, latest, tl_pixel_x, tl_pixel_y, br_pixel_x, br_pixel_y,
                   pc, img, writes, ret, report, disk, stages>>

\* lines 68-75: another status, a timeout or other exception, or bytes
\* cv2.imdecode cannot decode (it returns None)
FailureKinds == {"status", "exception", "undecodable"}
DownloadFail(k) ==
    /\ pc = "gather"
    /\ tasks[k] = "pending"
    /\ \E kind \in FailureKinds : tasks' = [tasks EXCEPT ![k] = "None"]
    /\ UNCHANGED <<analysisVars, heatVars, projVars, routeVars, waitVars>>
    /\ UNCHANGED <<caller, latest, tl_pixel_x, tl_pixel_y, br_pixel_x, br_pixel_y,
                   pc, img, writes, ret, report, disk, stages>>

\* lines 129-168 for a direct call of fetch_satellite_region
FinishFetch ==
    /\ pc = "gather"
    /\ caller = "fetch_satellite_region"
    /\ Settled(tasks)
    /\ LET s == Stitch(GatherResults(tasks, latest))
           outcome == FetchOutcome(s)
       IN  /\ ret' = outcome
           /\ img' = IF outcome = "ndarray" THEN s.img ELSE NoImage
           /\ writes' = IF outcome = "ndarray" THEN s.writes ELSE NoWrites
           /\ disk' = IF outcome = "raised" THEN disk
                      ELSE SaveRegion(s.tiles_downloaded, disk)
    /\ pc' = "done"
    /\ stages' = <<"fetch_satellite_region">>
    /\ UNCHANGED <<analysisVars, heatVars, projVars, routeVars, waitVars>>
    /\ UNCHANGED <<caller, latest, tl_pixel_x, tl_pixel_y, br_pixel_x, br_pixel_y,
                   tasks, report>>

\* lines 129-168 and then 265-329 for get_live_satellite_data (no await
\* separates them); img keeps the mosaic fetch_satellite_region returned
FinishLive ==
    /\ pc = "gather"
    /\ caller = "get_live_satellite_data"
    /\ Settled(tasks)
    /\ LET s == Stitch(GatherResults(tasks, latest))
           outcome == FetchOutcome(s)
       IN  IF outcome = "ndarray"
           THEN \E vegOk \in BOOLEAN :
                  /\ ret' = "dict"
                  /\ report' = Report(vegOk)
                  /\ img' = s.img
                  /\ writes' = s.writes
                  /\ disk' = IF vegOk
                             THEN SaveVegetation(SaveRegion(s.tiles_downloaded, disk))
                             ELSE SaveRegion(s.tiles_downloaded, disk)
                  /\ stages' = LiveStages
           ELSE /\ ret' = "None"
                /\ report' = NoReport
                /\ img' = NoImage
                /\ writes' = NoWrites
                /\ disk' = disk
                /\ stages' = <<"fetch_satellite_region">>
    /\ pc' = "done"
    /\ UNCHANGED <<analysisVars, heatVars, projVars, routeVars, waitVars>>
    /\ UNCHANGED <<caller, latest, tl_pixel_x, tl_pixel_y, br_pixel_x, br_pixel_y, tasks>>

\* The request's task is cancelled while it awaits gather (line 127):
\* CancelledError leaves both coroutines (it is no Exception, line 327)
Cancel ==
    /\ pc = "gather"
    /\ tasks' = CancelPending(tasks)
    /\ pc' = "done"
    /\ ret' = "cancelled"
    /\ img' = NoImage
    /\ writes' = NoWrites
    /\ UNCHANGED <<analysisVars, heatVars, projVars, routeVars, waitVars>>
    /\ UNCHANGED <<caller, latest, tl_pixel_x, tl_pixel_y, br_pixel_x, br_pixel_y,
                   report, disk, stages>>

Next ==
    \/ RejectBox
    \/ EmptyRange
    \/ StartDownloads
    \/ \E k \in DOMAIN tasks : DownloadOk(k)
    \/ \E k \in DOMAIN tasks : DownloadFail(k)
    \/ FinishFetch
    \/ FinishLive
    \/ Cancel

Spec == Init /\ [][Next]_vars

\* ------------------------------------------------ the order of completion
\* The downloads run concurrently and end in any order.  SpecOrder follows
\* direct calls of fetch_satellite_region for boxes whose top-left corner is
\* the first or second pixel of a tile and records, with each download that
\* ends, that it was the latest to end.
InitOrder ==
    /\ Init
    /\ caller = "fetch_satellite_region"
    /\ tl_pixel_x \in 0..1
    /\ tl_pixel_y \in 0..1

\* lines 64-69, the order recorded
DownloadOkInOrder(k) ==
    /\ pc = "gather"
    /\ tasks[k] = "pending"
    /\ tasks' = [tasks EXCEPT ![k] = "image"]
    /\ latest' = k
    /\ UNCHANGED <<analysisVars, heatVars, projVars, routeVars, waitVars>>
    /\ UNCHANGED <<caller, tl_pixel_x, tl_pixel_y, br_pixel_x, br_pixel_y,
                   pc, img, writes, ret, report, disk, stages>>

\* lines 68-75, the order recorded
DownloadFailInOrder(k) ==
    /\ pc = "gather"
    /\ tasks[k] = "pending"
    /\ \E kind \in FailureKinds : tasks' = [tasks EXCEPT ![k] = "None"]
    /\ latest' = k
    /\ UNCHANGED <<analysisVars, heatVars, projVars, routeVars, waitVars>>
    /\ UNCHANGED <<caller, tl_pixel_x, tl_pixel_y, br_pixel_x, br_pixel_y,
                   pc, img, writes, ret, report, disk, stages>>

NextOrder ==
    \/ RejectBox
    \/ EmptyRange
    \/ StartDownloads
    \/ \E k \in DOMAIN tasks : DownloadOkInOrder(k)
    \/ \E k \in DOMAIN tasks : DownloadFailInOrder(k)
    \/ FinishFetch
    \/ Cancel

SpecOrder == InitOrder /\ [][NextOrder]_vars

\* ================================================================ claims
\* fetch_satellite_region returned a mosaic (to its caller, or to
\* get_live_satellite_data)
Stitched == pc = "done" /\ ret \in {"ndarray", "dict"}

\* the tile containing the global pixel coordinate of canvas position p
Owner(p) == <<(tl_pixel_x + p[1]) \div TileSize, (tl_pixel_y + p[2]) \div TileSize>>

TileOf(k) == <<TaskTileX(k), TaskTileY(k)>>
Succeeded == {TileOf(k) : k \in {j \in DOMAIN tasks : tasks[j] = "image"}}
Failed == {TileOf(k) : k \in {j \in DOMAIN tasks : tasks[j] = "None"}}

\* canvas positions inside the placement rectangle of tile <<tx, ty>>
Placement(t) ==
    {p \in DOMAIN img :
        /\ t[1] * TileSize - tl_pixel_x <= p[1]
        /\ p[1] < t[1] * TileSize - tl_pixel_x + TileSize
        /\ t[2] * TileSize - tl_pixel_y <= p[2]
        /\ p[2] < t[2] * TileSize - tl_pixel_y + TileSize}

\* C1: in a stitched mosaic every pixel has been written at most once; a
\* pixel whose owning tile downloaded successfully is written exactly once
\* and from that tile, any other pixel is never written and is zero.
C1_WrittenOnceFromOwner ==
    Stitched =>
        /\ DOMAIN img = Canvas
        /\ \A p \in DOMAIN img :
              /\ Len(writes[p]) <= 1
              /\ Owner(p) \in Succeeded => writes[p] = <<Owner(p)>>
              /\ Owner(p) \notin Succeeded => writes[p] = <<>> /\ img[p] = Zero

\* a mosaic of several tiles with a written pixel and a pixel of a failed tile
C1_Witness ==
    /\ Stitched
    /\ Cardinality(Succeeded) >= 2
    /\ \E p \in DOMAIN img : Owner(p) \in Succeeded /\ writes[p] = <<Owner(p)>>
    /\ \E p \in DOMAIN img : Owner(p) \in Failed /\ img[p] = Zero

\* C2: for every successfully fetched tile and every mosaic pixel inside
\* its placement rectangle, the mosaic holds the tile's pixel at the offset
\* of the pixel from the rectangle's top-left corner.
C2_PixelExact ==
    Stitched =>
        \A t \in Succeeded : \A p \in Placement(t) :
            img[p] = TilePixel(t[1], t[2],
                               p[1] - (t[1] * TileSize - tl_pixel_x),
                               p[2] - (t[2] * TileSize - tl_pixel_y))

\* an interior-complete tile and a partially visible edge tile both placed
C2_Witness ==
    /\ Stitched
    /\ \E t \in Succeeded : Cardinality(Placement(t)) = TileSize * TileSize
    /\ \E t \in Succeeded :
          /\ Placement(t) # {}
          /\ Cardinality(Placement(t)) < TileSize * TileSize

\* gather returned and lines 129-168 ran
Finished == pc = "done" /\ tasks # NoTasks /\ ret # "cancelled"

\* C3: a failed tile does not abort the region fetch: with another tile
\* successful a mosaic is returned, successful tiles placed unchanged, the
\* failed tile's area zero.
C3_FailureTolerated ==
    (Finished /\ Failed # {} /\ Succeeded # {}) =>
        /\ Stitched
        /\ \A t \in Succeeded : \A p \in Placement(t) :
              img[p] = TilePixel(t[1], t[2],
                                 p[1] - (t[1] * TileSize - tl_pixel_x),
                                 p[2] - (t[2] * TileSize - tl_pixel_y))
        /\ \A t \in Failed : \A p \in Placement(t) : img[p] = Zero

\* C4: for a box of positive width and height, no data is returned iff no
\* requested tile was downloaded successfully.
C4_NoDataIffNoTile ==
    (pc = "done" /\ ret # "cancelled" /\ br_pixel_x - tl_pixel_x > 0 /\ img_h > 0) =>
        (Stitched <=> Succeeded # {})

\* C5: a box whose pixel width (east minus west) or pixel height (south
\* minus north) is not positive fails at once: no tile request is issued
\* and no mosaic is produced.
C5_InvalidBoxFailsFast ==
    (br_pixel_x - tl_pixel_x <= 0 \/ br_pixel_y - tl_pixel_y <= 0) =>
        /\ tasks = NoTasks
        /\ img = NoImage
        /\ pc = "done" => ret = "None"

\* what fetch_satellite_region gives back when every download failed
NoImageryValue ==
    FetchOutcome([img |-> NoImage, writes |-> NoWrites,
                  tiles_downloaded |-> 0, raised |-> FALSE])

\* line 154 raised for the tiles that arrived
ProcessingError == Finished /\ Stitch(tasks).raised

\* C6: an invalid bounding box and a processing error are never reported
\* with the result value that reports "every tile download failed".
C6_ErrorsDistinctFromNoData ==
    (pc = "done" /\ (InvalidDimensions \/ ProcessingError)) => ret # NoImageryValue

\* C7: every download of the covering range is started together, and no
\* tile is placed and no result decided while a download has not settled.
C7_AllSettledBeforeStitch ==
    /\ tasks # NoTasks => DOMAIN tasks = 1..NumTasks
    /\ (\E k \in DOMAIN tasks : tasks[k] = "pending") =>
          /\ pc = "gather"
          /\ ret = "running"
          /\ \A p \in DOMAIN img : img[p] = Zero /\ writes[p] = <<>>
    /\ (pc = "done" /\ tasks # NoTasks /\ ret # "cancelled") =>
          \A k \in DOMAIN tasks : tasks[k] \in {"image", "None"}

\* a success and a failure have arrived, a third download is awaited,
\* nothing is placed
C7_Witness ==
    /\ pc = "gather"
    /\ \E k \in DOMAIN tasks : tasks[k] = "image"
    /\ \E k \in DOMAIN tasks : tasks[k] = "None"
    /\ \E k \in DOMAIN tasks : tasks[k] = "pending"
    /\ \A p \in DOMAIN img : img[p] = Zero

\* C8: after a cancellation no download of the request is in flight, no
\* tile has been placed, no mosaic, report or file exists for the request.
C8_CancelAllOrNothing ==
    ret = "cancelled" =>
        /\ pc = "done"
        /\ \A k \in DOMAIN tasks : tasks[k] # "pending"
        /\ img = NoImage
        /\ writes = NoWrites
        /\ report = NoReport
        /\ disk = {ImageDir}

\* cancelled with one download finished and another still in flight
C8_Witness ==
    /\ ret = "cancelled"
    /\ \E k \in DOMAIN tasks : tasks[k] = "image"
    /\ \E k \in DOMAIN tasks : tasks[k] = "cancelled"

C10_NoStorage ==
    /\ disk = {ImageDir}
    /\ ret = "dict" => report.storage_used = FALSE

\* ================================================================
\* analysis_service.py: crop, tile, predict, untile
\* ================================================================
\* ---------------------------------------------------------------- bounds
ModelTile == 2     \* the model's input size, scaled down from 512
MaxDim == 5        \* largest height and width of an input image
MaxCalls == 2      \* calls of one process explored

\* ---------------------------------------------------------------- constants
NumClasses == 6        \* Conv2D(6, 1, ...): classes of the softmax output
BuildingClass == 0     \* prediction_indices == 0
VegetationClass == 3   \* prediction_indices == 3

\* An image of h rows and w columns with Channels values per pixel; the
\* pixel of row y and column x is named by a number of its own.
ImageOf(h, w) ==
    [shape |-> <<h, w, Channels>>,
     px |-> [p \in (0..(h - 1)) \X (0..(w - 1)) |-> p[1] * w + p[2]]]

Images == {ImageOf(h, w) : h \in 1..MaxDim, w \in 1..MaxDim}

\* a[y0:y1, x0:x1] (the later axes are kept whole)
Slice2D(a, y0, y1, x0, x1) ==
    LET ys == SliceStart(y0, y1, a.shape[1])
        nh == SliceLen(y0, y1, a.shape[1])
        xs == SliceStart(x0, x1, a.shape[2])
        nw == SliceLen(x0, x1, a.shape[2])
    IN  [shape |-> <<nh, nw>> \o SubSeq(a.shape, 3, Len(a.shape)),
         px |-> [p \in (0..(nh - 1)) \X (0..(nw - 1)) |->
                    a.px[<<ys + p[1], xs + p[2]>>]]]

\* mutant: the crop keeps the bottom-right corner instead of the top-left
Mut_crop_to_multiple_of_512(image) ==
    LET height == image.shape[1]
        width == image.shape[2]
        new_height == height - (height % ModelTile)
        new_width == width - (width % ModelTile)
    IN  Slice2D(image, height - new_height, height, width - new_width, width)

\* mutant: a whole tile is discarded on top of the remainder
Mut_CropStrict(image) ==
    LET height == image.shape[1]
        width == image.shape[2]
        new_height == Max(0, height - (height % ModelTile) - ModelTile)
        new_width == Max(0, width - (width % ModelTile) - ModelTile)
    IN  Slice2D(image, 0, new_height, 0, new_width)
\* lines 7-13
crop_to_multiple_of_512(image) ==
    LET height == image.shape[1]
        width == image.shape[2]
        new_height == height - (height % ModelTile)
        new_width == width - (width % ModelTile)
    IN  Slice2D(image, 0, new_height, 0, new_width)

\* list(range(0, stop, step))
RangeFromZero(stop, step) ==
    [i \in 1..((stop + step - 1) \div step) |-> (i - 1) * step]

\* np.array(tiles) of equally shaped tiles: a batch with its shape and its
\* tiles in list order; np.array([]) has shape (0,)
NpArray(tiles) ==
    IF tiles = <<>> THEN [shape |-> <<0>>, t |-> <<>>]
    ELSE [shape |-> <<Len(tiles)>> \o tiles[1].shape,
          t |-> [k \in 1..Len(tiles) |-> tiles[k].px]]

\* mutant: the tiles are collected column by column
Mut_tile_image(image, tile_size) ==
    LET ys == RangeFromZero(image.shape[1], tile_size)
        xs == RangeFromZero(image.shape[2], tile_size)
    IN  NpArray([k \in 1..(Len(ys) * Len(xs)) |->
                    LET y == ys[((k - 1) % Len(ys)) + 1]
                        x == xs[((k - 1) \div Len(ys)) + 1]
                    IN  Slice2D(image, y, y + tile_size, x, x + tile_size)])

\* lines 16-26: y is the outer loop, x the inner one
tile_image(image, tile_size) ==
    LET ys == RangeFromZero(image.shape[1], tile_size)
        xs == RangeFromZero(image.shape[2], tile_size)
    IN  NpArray([k \in 1..(Len(ys) * Len(xs)) |->
                    LET y == ys[((k - 1) \div Len(xs)) + 1]
                        x == xs[((k - 1) % Len(xs)) + 1]
                    IN  Slice2D(image, y, y + tile_size, x, x + tile_size)])

\* lines 38-43 from tile_idx on; grid is <<tiles_y, tiles_x>>, rec the
\* array being reconstructed
RECURSIVE UntileFrom(_, _, _, _, _)
UntileFrom(tile_idx, tiles, tile_size, grid, rec) ==
    IF tile_idx >= grid[1] * grid[2] THEN rec
    ELSE LET y_start == (tile_idx \div grid[2]) * tile_size
             x_start == (tile_idx % grid[2]) * tile_size
             tile == tiles.t[tile_idx + 1]
             Inside(p) == /\ y_start <= p[1] /\ p[1] < y_start + tile_size
                          /\ x_start <= p[2] /\ p[2] < x_start + tile_size
         IN  UntileFrom(tile_idx + 1, tiles, tile_size, grid,
                        [rec EXCEPT !.px =
                            [p \in DOMAIN @ |->
                                IF Inside(p)
                                THEN tile[<<p[1] - y_start, p[2] - x_start>>]
                                ELSE @[p]]])

\* lines 28-45; tiles.shape[-1] is the last axis of the batch
untile_image(tiles, original_height, original_width, tile_size) ==
    LET tiles_y == original_height \div tile_size
        tiles_x == original_width \div tile_size
        reconstructed ==
            [shape |-> <<original_height, original_width,
                         tiles.shape[Len(tiles.shape)]>>,
             px |-> [p \in (0..(original_height - 1)) \X (0..(original_width - 1))
                        |-> 0]]
    IN  UntileFrom(0, tiles, tile_size, <<tiles_y, tiles_x>>, reconstructed)

\* np.squeeze: the axes of length 1 are dropped
Squeeze(a) == [shape |-> SelectSeq(a.shape, LAMBDA d : d # 1), px |-> a.px]

\* lines 59-65: the arg-max class the model with weights w gives the pixel
\* at offset p of a tile.  The class depends on the pixel and on the tile
\* it is presented in.
PredictionIndex(w, tile, p) == (w + tile[p] + tile[<<0, 0>>]) % NumClasses

\* mutant: the class is compared with >= instead of ==
Mut_MaskAtLeast(index, class) == IF index >= class THEN 1 ELSE 0
\* mutant: the mask holds 255 where the class is found
Mut_MaskValue(index, class) == IF index = class THEN 255 ELSE 0
\* lines 68-69: np.where(prediction_indices == class, 1, 0)
MaskValue(index, class) == IF index = class THEN 1 ELSE 0

\* mutant: both masks are derived from the vegetation class
Mut_ClassTiles(w, tiles, class) ==
    [shape |-> <<tiles.shape[1], tiles.shape[2], tiles.shape[3], 1>>,
     t |-> [k \in 1..Len(tiles.t) |->
              [p \in DOMAIN tiles.t[k] |->
                  MaskValue(PredictionIndex(w, tiles.t[k], p), VegetationClass)]]]
\* lines 68-69: the tiles of one class mask, with a last axis of length 1
ClassTiles(w, tiles, class) ==
    [shape |-> <<tiles.shape[1], tiles.shape[2], tiles.shape[3], 1>>,
     t |-> [k \in 1..Len(tiles.t) |->
              [p \in DOMAIN tiles.t[k] |->
                  MaskValue(PredictionIndex(w, tiles.t[k], p), class)]]]

\* lines 47-75; model.predict rejects an empty batch
analyze_image(w, input) ==
    LET image == crop_to_multiple_of_512(input)
        original_height == image.shape[1]
        original_width == image.shape[2]
        tiles == tile_image(image, ModelTile)
    IN  IF tiles.shape[1] = 0
        THEN [op |-> "raised", image |-> NoArr, vegetation_mask |-> NoArr,
              building_mask |-> NoArr]
        ELSE [op |-> "analyze_image",
              image |-> image,
              vegetation_mask |->
                  Squeeze(untile_image(ClassTiles(w, tiles, VegetationClass),
                                       original_height, original_width, ModelTile)),
              building_mask |->
                  Squeeze(untile_image(ClassTiles(w, tiles, BuildingClass),
                                       original_height, original_width, ModelTile))]

\* ------------------------------------------------ the process
\* the tile service at rest
FetchOff ==
    /\ caller = "fetch_satellite_region"
    /\ tl_pixel_x = 0
    /\ tl_pixel_y = 0
    /\ br_pixel_x = 0
    /\ br_pixel_y = 0
    /\ pc = "off"
    /\ tasks = NoTasks
    /\ latest = 0
    /\ img = NoImage
    /\ writes = NoWrites
    /\ ret = "running"
    /\ report = NoReport
    /\ disk = {ImageDir}
    /\ stages = <<>>

\* A process that has not yet imported analysis_service; the first image
\* it will be given is chosen.
InitAnalysis ==
    /\ FetchOff
    /\ HeatOff
    /\ ProjectOff
    /\ RoutesOff
    /\ WaitOff
    /\ a_pc = "boot"
    /\ a_image \in Images
    /\ a_weights = -1
    /\ a_out = NoOutput
    /\ a_calls = 0
    /\ model_builds = 0
    /\ model_loads = 0

\* mutant: every prediction loads the weights again
Mut_ModelAfterPredict(m) == [m EXCEPT !.loads = @ + 1]
\* line 62: model.predict leaves the model as it is
ModelAfterPredict(m) == m

\* resnet.py lines 48-50, run by the import of analysis_service line 5: the
\* model is built and the weights file is loaded
ImportModel ==
    /\ a_pc = "boot"
    /\ model_builds' = model_builds + 1
    /\ model_loads' = model_loads + 1
    /\ a_weights' \in 0..(NumClasses - 1)
    /\ a_pc' = "ready"
    /\ UNCHANGED <<a_image, a_out, a_calls>>
    /\ UNCHANGED <<fetchVars, heatVars, projVars, routeVars, waitVars>>

\* resnet.py line 50 raises (no weights file): the import fails and no
\* function of analysis_service exists
ImportFails ==
    /\ a_pc = "boot"
    /\ model_builds' = model_builds + 1
    /\ a_pc' = "import_failed"
    /\ UNCHANGED <<a_image, a_weights, a_out, a_calls, model_loads>>
    /\ UNCHANGED <<fetchVars, heatVars, projVars, routeVars, waitVars>>

\* analyze_image(a_image)
CallAnalyzeImage ==
    /\ a_pc = "ready"
    /\ a_calls < MaxCalls
    /\ LET out == analyze_image(a_weights, a_image)
           m == ModelAfterPredict([builds |-> model_builds, loads |-> model_loads,
                                   weights |-> a_weights])
       IN  /\ a_out' = out
           /\ a_pc' = IF out.op = "raised" THEN "raised" ELSE "returned"
           /\ model_builds' = m.builds
           /\ model_loads' = m.loads
           /\ a_weights' = m.weights
    /\ a_calls' = a_calls + 1
    /\ UNCHANGED a_image
    /\ UNCHANGED <<fetchVars, heatVars, projVars, routeVars, waitVars>>

\* crop_to_multiple_of_512(a_image)
CallCrop ==
    /\ a_pc = "ready"
    /\ a_calls < MaxCalls
    /\ a_out' = [NoOutput EXCEPT !.op = "crop",
                                 !.image = crop_to_multiple_of_512(a_image)]
    /\ a_pc' = "returned"
    /\ UNCHANGED <<a_image, a_weights, a_calls, model_builds, model_loads>>
    /\ UNCHANGED <<fetchVars, heatVars, projVars, routeVars, waitVars>>

\* crop_to_multiple_of_512(crop_to_multiple_of_512(a_image))
CallCropTwice ==
    /\ a_pc = "ready"
    /\ a_calls < MaxCalls
    /\ a_out' = [NoOutput EXCEPT
                   !.op = "crop_twice",
                   !.image = crop_to_multiple_of_512(crop_to_multiple_of_512(a_image))]
    /\ a_pc' = "returned"
    /\ UNCHANGED <<a_image, a_weights, a_calls, model_builds, model_loads>>
    /\ UNCHANGED <<fetchVars, heatVars, projVars, routeVars, waitVars>>

\* untile_image(tile_image(c), H, W) for the cropped image c of a_image
CallTileUntile ==
    /\ a_pc = "ready"
    /\ a_calls < MaxCalls
    /\ LET c == crop_to_multiple_of_512(a_image)
       IN  a_out' = [NoOutput EXCEPT
                       !.op = "tile_untile",
                       !.image = untile_image(tile_image(c, ModelTile),
                                              c.shape[1], c.shape[2], ModelTile)]
    /\ a_pc' = "returned"
    /\ UNCHANGED <<a_image, a_weights, a_calls, model_builds, model_loads>>
    /\ UNCHANGED <<fetchVars, heatVars, projVars, routeVars, waitVars>>

\* the process is given the next image
NextCall ==
    /\ a_pc \in {"returned", "raised"}
    /\ a_calls < MaxCalls
    /\ a_image' \in Images
    /\ a_out' = NoOutput
    /\ a_pc' = "ready"
    /\ UNCHANGED <<a_weights, a_calls, model_builds, model_loads>>
    /\ UNCHANGED <<fetchVars, heatVars, projVars, routeVars, waitVars>>

NextAnalysis ==
    \/ ImportModel
    \/ ImportFails
    \/ CallAnalyzeImage
    \/ CallCrop
    \/ CallCropTwice
    \/ CallTileUntile
    \/ NextCall

SpecAnalysis == InitAnalysis /\ [][NextAnalysis]_vars

\* ------------------------------------------------ claims C11-C16
\* the height and width the cropped a_image must have
CroppedH == a_image.shape[1] - (a_image.shape[1] % ModelTile)
CroppedW == a_image.shape[2] - (a_image.shape[2] % ModelTile)
CroppedPositions == (0..(CroppedH - 1)) \X (0..(CroppedW - 1))

\* C11: the crop of an image of height H and width W has height
\* H - (H mod tile) and width W - (W mod tile), and each retained position
\* holds the input's pixel of the same position (top-left anchored).
C11_CropTopLeft ==
    a_out.op = "crop" =>
        /\ a_out.image.shape = <<CroppedH, CroppedW, Channels>>
        /\ DOMAIN a_out.image.px = CroppedPositions
        /\ \A p \in CroppedPositions : a_out.image.px[p] = a_image.px[p]

C11_Witness ==
    /\ a_out.op = "crop"
    /\ a_image.shape[1] % ModelTile # 0
    /\ a_image.shape[2] % ModelTile # 0
    /\ CroppedH > 0
    /\ CroppedW > 0

\* C12: the crop returns an image whose dimensions are already multiples of
\* the tile size as it is, and cropping twice gives what cropping once gives.
C12_CropIdempotent ==
    /\ (/\ a_out.op = "crop"
        /\ a_image.shape[1] % ModelTile = 0
        /\ a_image.shape[2] % ModelTile = 0) => a_out.image = a_image
    /\ a_out.op = "crop_twice" =>
        /\ a_out.image = crop_to_multiple_of_512(a_image)
        /\ a_out.image.shape = <<CroppedH, CroppedW, Channels>>
        /\ a_out.image.px = [p \in CroppedPositions |-> a_image.px[p]]

C12_Witness ==
    /\ a_out.op = "crop_twice"
    /\ a_image.shape[1] % ModelTile # 0
    /\ CroppedH >= 2 * ModelTile
    /\ CroppedW >= ModelTile

\* C13: tiling an image whose dimensions are multiples of the tile size and
\* untiling the tiles gives the image back, pixel for pixel.
C13_TileUntileIdentity ==
    a_out.op = "tile_untile" =>
        /\ a_out.image.shape[1] = CroppedH
        /\ a_out.image.shape[2] = CroppedW
        /\ a_out.image.px = [p \in CroppedPositions |-> a_image.px[p]]
        /\ (CroppedH > 0 /\ CroppedW > 0) => a_out.image.shape[3] = Channels

C13_Witness ==
    /\ a_out.op = "tile_untile"
    /\ CroppedH >= 2 * ModelTile
    /\ CroppedW >= 2 * ModelTile

\* tile k of the cropped a_image in row-major order, nx tiles to a row
TileAt(k) ==
    LET nx == CroppedW \div ModelTile
    IN  [q \in (0..(ModelTile - 1)) \X (0..(ModelTile - 1)) |->
            a_image.px[<<(k \div nx) * ModelTile + q[1],
                         (k % nx) * ModelTile + q[2]>>]]

\* the arg-max class the model gives the pixel (y, x) of the cropped a_image
ClassAt(y, x) ==
    PredictionIndex(a_weights,
                    TileAt((y \div ModelTile) * (CroppedW \div ModelTile)
                           + (x \div ModelTile)),
                    <<y % ModelTile, x % ModelTile>>)

\* C14: tiles are taken in row-major order without overlap, and a pixel of
\* building_mask (vegetation_mask) is 1 exactly when the model's class at
\* the pixel's offset in its tile is the building (vegetation) class.
C14_MasksFollowTiles ==
    a_out.op = "analyze_image" =>
        \A p \in CroppedPositions :
            /\ a_out.building_mask.px[p] = 1 <=> ClassAt(p[1], p[2]) = BuildingClass
            /\ a_out.vegetation_mask.px[p] = 1 <=> ClassAt(p[1], p[2]) = VegetationClass

C14_Witness ==
    /\ a_out.op = "analyze_image"
    /\ CroppedH >= 2 * ModelTile
    /\ CroppedW >= 2 * ModelTile
    /\ \E p \in CroppedPositions : a_out.building_mask.px[p] = 1
    /\ \E p \in CroppedPositions : a_out.vegetation_mask.px[p] = 1

\* C15: the masks analyze_image returns hold only 0 and 1 and have the
\* height and width of the cropped image returned with them.
C15_MasksBinarySameShape ==
    a_out.op = "analyze_image" =>
        \A mask \in {a_out.building_mask, a_out.vegetation_mask} :
            /\ mask.shape = <<a_out.image.shape[1], a_out.image.shape[2]>>
            /\ DOMAIN mask.px = DOMAIN a_out.image.px
            /\ \A p \in DOMAIN mask.px : mask.px[p] \in {0, 1}

C15_Witness ==
    /\ a_out.op = "analyze_image"
    /\ a_image.shape[1] % ModelTile # 0
    /\ a_out.image.shape[2] >= 2 * ModelTile
    /\ \E p \in DOMAIN a_out.building_mask.px : a_out.building_mask.px[p] = 1
    /\ \E p \in DOMAIN a_out.building_mask.px : a_out.building_mask.px[p] = 0

\* C16: the model is built and loaded exactly once, before analyze_image
\* can call predict, and no call rebuilds, reloads or modifies it.
C16_ModelLoadedOnce ==
    /\ [](a_pc \in {"ready", "returned", "raised"} =>
            (model_builds = 1 /\ model_loads = 1))
    /\ [](a_calls > 0 => (model_builds = 1 /\ model_loads = 1))
    /\ [][a_pc # "boot" => /\ model_builds' = model_builds
                           /\ model_loads' = model_loads
                           /\ a_weights' = a_weights]_vars

C16_Witness ==
    /\ a_calls = 2
    /\ a_out.op = "analyze_image"
    /\ model_builds = 1
    /\ model_loads = 1

\* ------------------------------------------------ heat-field synthesis
\* Design document, section 4.5.  A raster is one row of HeatLen pixels, a
\* mask a sequence of 0 and 1.  Field values are rational numbers
\* <<numerator, denominator>> in lowest terms with a positive denominator;
\* a value of the field is a pair lo, hi enclosing it (lo = hi where the
\* value is rational).
HeatLen == 3
MaxSigma == 2
MaxWeight == 2

\* the regularizer epsilon = 1 / EpsInv
EpsInv == 1000
\* the distance to a class that has no pixel ("uniformly large", clamped)
FarDistance == 64

KnownMethods == {"weighted", "ndui", "signed_distance"}
Methods == KnownMethods \cup {"WEIGHTED", "laplace"}
Sigmas == 1..MaxSigma
Weights == 1..MaxWeight
Masks == [1..HeatLen -> {0, 1}]
Pixels == 1..HeatLen

RECURSIVE Gcd(_, _)
Gcd(a, b) == IF b = 0 THEN a ELSE Gcd(b, a % b)

\* the rational n / d, d # 0, in lowest terms
Rat(n, d) ==
    LET g == Gcd(Abs(n), Abs(d))
        s == IF d < 0 THEN -1 ELSE 1
    IN  <<(s * n) \div g, (s * d) \div g>>
RatNeg(r) == <<-r[1], r[2]>>
RatLeq(r, q) == r[1] * q[2] <= q[1] * r[2]
Exact(r) == [lo |-> r, hi |-> r]
Negated(v) == [lo |-> RatNeg(v.hi), hi |-> RatNeg(v.lo)]

\* the taps exp(-d^2 / (2 sigma^2)), d = 0, 1, ..., in tenths, up to the
\* last tap that rounds to a tenth
GaussKernel(sigma) ==
    CASE sigma = 1 -> <<10, 6, 1>>
      [] sigma = 2 -> <<10, 9, 6, 3, 1>>
      [] sigma = 3 -> <<10, 9, 8, 6, 4, 2, 1>>
      [] OTHER -> <<10, 10, 9, 8, 6, 5, 3, 2, 1, 1>>
RECURSIVE SumSeq(_)
SumSeq(q) == IF q = <<>> THEN 0 ELSE Head(q) + SumSeq(Tail(q))
\* the sum of all taps, d = -radius .. radius
KernelSum(sigma) == 2 * SumSeq(GaussKernel(sigma)) - GaussKernel(sigma)[1]

\* the pixel a position beyond the border is read from (mirrored raster)
Reflect(i) ==
    LET m == (i - 1) % (2 * HeatLen)
    IN  IF m < HeatLen THEN m + 1 ELSE 2 * HeatLen - m

\* the taps d, d + 1, ... of kernel applied to mask around pixel i
RECURSIVE BlurFrom(_, _, _, _)
BlurFrom(d, mask, kernel, i) ==
    IF d >= Len(kernel) THEN 0
    ELSE kernel[Abs(d) + 1] * mask[Reflect(i + d)]
         + BlurFrom(d + 1, mask, kernel, i)
\* the Gaussian blur of mask, times KernelSum(sigma)
Blur(mask, sigma) ==
    LET kernel == GaussKernel(sigma)
    IN  [i \in Pixels |-> BlurFrom(1 - Len(kernel), mask, kernel, i)]

RECURSIVE MaxOf(_)
MaxOf(S) == IF S = {} THEN 0
            ELSE LET x == CHOOSE x \in S : TRUE
                 IN  Max(x, MaxOf(S \ {x}))

\* w_build * B_blur - w_veg * V_blur and w_build * B_blur + w_veg * V_blur
\* at every pixel, over the common denominator
Influence(B, V, p) ==
    LET zb == KernelSum(p.sigma_build)
        zv == KernelSum(p.sigma_veg)
        bb == Blur(B, p.sigma_build)
        vb == Blur(V, p.sigma_veg)
    IN  [den |-> zb * zv,
         diff |-> [i \in Pixels |-> p.w_build * bb[i] * zv - p.w_veg * vb[i] * zb],
         sum |-> [i \in Pixels |-> p.w_build * bb[i] * zv + p.w_veg * vb[i] * zb]]
\* mutant: the weighted field is left as it is
Mut_Normalize(diff, den) == [i \in Pixels |-> Exact(Rat(diff[i], den))]
\* weighted: H / (max(|H|) + epsilon), H = diff / den
Normalize(diff, den) ==
    LET m == MaxOf({Abs(diff[i]) : i \in Pixels})
    IN  [i \in Pixels |-> Exact(Rat(diff[i] * EpsInv, m * EpsInv + den))]

\* ndui: (w_build B_blur - w_veg V_blur) / (w_build B_blur + w_veg V_blur + epsilon)
NormalizedDifference(inf) ==
    [i \in Pixels |->
        Exact(Rat(inf.diff[i] * EpsInv, inf.sum[i] * EpsInv + inf.den))]

\* the distance from pixel i to the nearest pixel of mask, zero inside it
DistanceTo(mask, i) ==
    LET ds == {Abs(i - j) : j \in {j \in Pixels : mask[j] = 1}}
    IN  IF ds = {} THEN FarDistance
        ELSE CHOOSE d \in ds : \A e \in ds : d <= e

\* mutant: the distance to buildings minus the distance to vegetation
Mut_SignedDistance(B, V, p, i) ==
    Rat(2 * (DistanceTo(B, i) - DistanceTo(V, i)), p.sigma_build + p.sigma_veg)
\* S = (dist_to_vegetation - dist_to_building) / gamma,
\* gamma = (sigma_build + sigma_veg) / 2
SignedDistance(B, V, p, i) ==
    Rat(2 * (DistanceTo(V, i) - DistanceTo(B, i)), p.sigma_build + p.sigma_veg)

\* tanh(x) for x = n / d > 0 lies between (L - 1) / (L + 1), where
\* L = 1 + 2x + 2x^2 <= exp(2x), and min(x, 1)
TanhPositive(x) ==
    LET n == x[1]
        d == x[2]
    IN  [lo |-> Rat(n * d + n * n, d * d + n * d + n * n),
         hi |-> IF n >= d THEN <<1, 1>> ELSE x]
\* tanh is odd and tanh(0) = 0
Tanh(x) ==
    IF x[1] = 0 THEN Exact(<<0, 1>>)
    ELSE IF x[1] > 0 THEN TanhPositive(x)
    ELSE Negated(TanhPositive(RatNeg(x)))

\* mutant: an unrecognized name selects the weighted method
Mut_MethodOf(name) == IF name \in KnownMethods THEN name ELSE "weighted"
\* the method a configured name selects
MethodOf(name) == IF name \in KnownMethods THEN name ELSE "unrecognized"

\* synthesize(building_mask, vegetation_mask, params)
synthesize(B, V, p) ==
    LET method == MethodOf(p.method)
    IN  CASE method = "weighted" ->
               LET inf == Influence(B, V, p)
               IN  [status |-> "ok", field |-> Normalize(inf.diff, inf.den)]
          [] method = "ndui" ->
               [status |-> "ok", field |-> NormalizedDifference(Influence(B, V, p))]
          [] method = "signed_distance" ->
               [status |-> "ok",
                field |-> [i \in Pixels |-> Tanh(SignedDistance(B, V, p, i))]]
          [] OTHER -> [status |-> "config_error", field |-> <<>>]

\* mutant: the weights stay with their masks
Mut_SwappedParams(p) == p
\* the parameters with w_build and w_veg exchanged, the rest as it is
SwappedParams(p) == [p EXCEPT !.w_build = p.w_veg, !.w_veg = p.w_build]

\* a request with its two masks and its parameter tuple
InitHeat ==
    /\ FetchOff
    /\ AnalysisOff
    /\ ProjectOff
    /\ RoutesOff
    /\ WaitOff
    /\ h_pc = "called"
    /\ h_masks \in [building : Masks, vegetation : Masks]
    /\ h_params \in [method : Methods, sigma_build : Sigmas, sigma_veg : Sigmas,
                     w_build : Weights, w_veg : Weights]
    /\ h_field = <<>>
    /\ h_swapped = <<>>

\* synthesize returns the field
Synthesize ==
    /\ h_pc = "called"
    /\ MethodOf(h_params.method) \in KnownMethods
    /\ h_field' = synthesize(h_masks.building, h_masks.vegetation, h_params).field
    /\ h_pc' = "returned"
    /\ UNCHANGED <<h_masks, h_params, h_swapped>>
    /\ UNCHANGED <<fetchVars, analysisVars, projVars, routeVars, waitVars>>

\* synthesize fails with a configuration error
SynthesizeFails ==
    /\ h_pc = "called"
    /\ MethodOf(h_params.method) \notin KnownMethods
    /\ h_pc' = "config_error"
    /\ UNCHANGED <<h_masks, h_params, h_field, h_swapped>>
    /\ UNCHANGED <<fetchVars, analysisVars, projVars, routeVars, waitVars>>

\* synthesize is called again with the masks and the weights exchanged
SynthesizeSwapped ==
    /\ h_pc = "returned"
    /\ h_swapped' = synthesize(h_masks.vegetation, h_masks.building,
                               SwappedParams(h_params)).field
    /\ h_pc' = "compared"
    /\ UNCHANGED <<h_masks, h_params, h_field>>
    /\ UNCHANGED <<fetchVars, analysisVars, projVars, routeVars, waitVars>>

NextHeat ==
    \/ Synthesize
    \/ SynthesizeFails
    \/ SynthesizeSwapped

SpecHeat == InitHeat /\ [][NextHeat]_vars

\* ------------------------------------------------ claims C17-C20
One == <<1, 1>>
InUnitInterval(v) ==
    /\ RatLeq(RatNeg(One), v.lo)
    /\ (v.lo = v.hi \/ RatLeq(v.lo, v.hi))
    /\ RatLeq(v.hi, One)

\* C17: for each of the three methods and every pair of binary masks, every
\* value of the synthesized field lies within [-1, 1].
C17_FieldBounded ==
    h_pc \in {"returned", "compared"} =>
        /\ DOMAIN h_field = Pixels
        /\ \A i \in Pixels : InUnitInterval(h_field[i])

AllOf(mask, b) == \A i \in Pixels : mask[i] = b

C17_Witness ==
    /\ h_pc = "returned"
    /\ h_params.method = "weighted"
    /\ h_params.w_build = MaxWeight
    /\ AllOf(h_masks.building, 1)
    /\ AllOf(h_masks.vegetation, 0)
    /\ \E i \in Pixels : h_field[i].hi[1] > 0

\* C18 as stated: for weighted and ndui, swapping the masks and the weights,
\* the blur radii left as they are, gives the negated field.
C18_SwapNegates ==
    (h_pc = "compared" /\ h_params.method \in {"weighted", "ndui"}) =>
        \A i \in Pixels : h_swapped[i] = Negated(h_field[i])

\* C18 amended: the swap gives the negated field when the two blur radii
\* are equal.
C18_SwapNegatesEqualRadii ==
    (/\ h_pc = "compared"
     /\ h_params.method \in {"weighted", "ndui"}
     /\ h_params.sigma_build = h_params.sigma_veg) =>
        \A i \in Pixels : h_swapped[i] = Negated(h_field[i])

C18_Witness ==
    /\ h_pc = "compared"
    /\ h_params.method = "ndui"
    /\ h_params.sigma_build = h_params.sigma_veg
    /\ h_params.w_build # h_params.w_veg
    /\ h_masks.building # h_masks.vegetation
    /\ \E i \in Pixels : h_field[i].lo[1] > 0
    /\ \E i \in Pixels : h_field[i].lo[1] < 0

\* the scenario of C19: signed_distance, buildings everywhere, no vegetation
AllBuilding ==
    /\ h_pc \in {"returned", "compared"}
    /\ h_params.method = "signed_distance"
    /\ AllOf(h_masks.building, 1)
    /\ AllOf(h_masks.vegetation, 0)

\* C19 as stated: in the scenario every value of the field is negative
\* (and approaches -1).
C19_AllBuildingNegative ==
    AllBuilding => \A i \in Pixels : h_field[i].hi[1] < 0

\* C19 amended: in the scenario every value of the field is positive and
\* within a hundredth of +1.
C19_AllBuildingPositive ==
    AllBuilding =>
        \A i \in Pixels :
            /\ RatLeq(<<99, 100>>, h_field[i].lo)
            /\ RatLeq(h_field[i].hi, One)

C19_Witness ==
    /\ AllBuilding
    /\ h_pc = "returned"
    /\ h_params.sigma_build = MaxSigma
    /\ h_params.sigma_veg = MaxSigma

\* C20: with a method name other than the three known ones the synthesis
\* fails with a configuration error and gives no field, of no method.
C20_UnknownMethodFails ==
    /\ (h_params.method \notin KnownMethods /\ h_pc # "called") =>
            (h_pc = "config_error" /\ h_field = <<>> /\ h_swapped = <<>>)
    /\ h_pc = "config_error" => h_params.method \notin KnownMethods

C20_Witness ==
    /\ h_pc = "config_error"
    /\ h_params.method = "WEIGHTED"
    /\ h_field = <<>>

\* ================================================================
\* live_satellite_service.py: the projection of a bounding box
\* ================================================================
\* Angles are given in hundredths of a degree (Deg to a degree), latitudes
\* in whole degrees.  The arithmetic keeps four decimals: a quotient, a
\* sine and a logarithm are rounded to the nearest multiple of 1 / E4, the
\* resolution of the floating-point arithmetic scaled down.  A projected
\* coordinate is the rational <<numerator, denominator>>.
MaxZoom == 3       \* largest zoom of a call; zoom = 17 is scaled down to it
MaxRadius == 2     \* largest analysis_radius, in degrees

Deg == 100
E4 == 10000
\* line 55: 0.9999
SinClamp == 9999
\* line 54: lat * pi / 180
HalfTurn == 180
\* line 56: lon / 360
FullTurn == 360

\* line 260
LiveZoom == MaxZoom

Latitudes == {d * Deg : d \in {-90, -89, -87, -85, -45, 0, 45, 85, 87, 89, 90}}
Longitudes == {d * Deg : d \in {-180, -179, -90, 0, 90, 179, 180}} \cup {1, 4}
Zooms == 0..MaxZoom
Radii == {r * Deg : r \in 1..MaxRadius}

\* E4 * sin(d degrees), d = 0 .. 90
SinTable ==
    <<0, 175, 349, 523, 698, 872, 1045, 1219, 1392, 1564,
      1736, 1908, 2079, 2250, 2419, 2588, 2756, 2924, 3090, 3256,
      3420, 3584, 3746, 3907, 4067, 4226, 4384, 4540, 4695, 4848,
      5000, 5150, 5299, 5446, 5592, 5736, 5878, 6018, 6157, 6293,
      6428, 6561, 6691, 6820, 6947, 7071, 7193, 7314, 7431, 7547,
      7660, 7771, 7880, 7986, 8090, 8192, 8290, 8387, 8480, 8572,
      8660, 8746, 8829, 8910, 8988, 9063, 9135, 9205, 9272, 9336,
      9397, 9455, 9511, 9563, 9613, 9659, 9703, 9744, 9781, 9816,
      9848, 9877, 9903, 9925, 9945, 9962, 9976, 9986, 9994, 9998,
      10000>>
\* E4 * log((1 + s) / (1 - s)) / (4 pi) for s = min(SinTable[d + 1], SinClamp) / E4
LogTable ==
    <<0, 28, 56, 83, 111, 139, 167, 195, 223, 251,
      279, 307, 336, 364, 393, 421, 450, 479, 508, 538,
      567, 597, 627, 657, 687, 718, 748, 779, 811, 842,
      874, 906, 939, 972, 1005, 1039, 1073, 1108, 1143, 1178,
      1214, 1251, 1288, 1326, 1364, 1403, 1442, 1483, 1524, 1566,
      1608, 1652, 1697, 1742, 1789, 1837, 1886, 1937, 1988, 2041,
      2096, 2152, 2210, 2271, 2333, 2398, 2464, 2534, 2607, 2683,
      2762, 2845, 2934, 3025, 3124, 3226, 3338, 3458, 3584, 3724,
      3877, 4047, 4237, 4442, 4690, 4985, 5351, 5780, 6455, 7329,
      7881>>

Sign(a) == IF a < 0 THEN -1 ELSE 1

\* line 54: np.sin(lat * np.pi / 180), in units of 1 / E4
SinE4(lat) ==
    LET a == (Abs(lat) \div Deg) % FullTurn
        b == IF a > HalfTurn THEN a - HalfTurn ELSE a
        c == IF 2 * b > HalfTurn THEN HalfTurn - b ELSE b
        flip == IF a > HalfTurn THEN -1 ELSE 1
    IN  Sign(lat) * flip * SinTable[c + 1]

\* line 55: min(max(siny, -0.9999), 0.9999)
ClampSin(siny) == Min(Max(siny, -SinClamp), SinClamp)

\* line 57: np.log((1 + siny) / (1 - siny)) / (4 * np.pi), in units of 1 / E4
LogTermE4(siny) ==
    LET i == CHOOSE i \in 1..Len(SinTable) : Min(SinTable[i], SinClamp) = Abs(siny)
    IN  Sign(siny) * LogTable[i]

\* n / d, d > 0, rounded to the nearest integer
RoundDiv(n, d) == (2 * n + d) \div (2 * d)

\* line 56: x = scale * (0.5 + lon / 360)
ProjectX(lon, scale) ==
    <<scale * ((E4 \div 2) + RoundDiv(lon * E4, FullTurn * Deg)), E4>>

\* mutant: y = scale * (0.5 + log(...) / (4 pi))
Mut_ProjectY(lat, scale) ==
    <<scale * ((E4 \div 2) + LogTermE4(ClampSin(SinE4(lat)))), E4>>
\* lines 54-57: y = scale * (0.5 - log((1 + siny) / (1 - siny)) / (4 pi))
ProjectY(lat, scale) ==
    <<scale * ((E4 \div 2) - LogTermE4(ClampSin(SinE4(lat)))), E4>>

\* lines 52-58
_project_with_scale(lat, lon, scale) == <<ProjectX(lon, scale), ProjectY(lat, scale)>>

\* line 85: 1 << zoom
RECURSIVE ShiftLeft(_)
ShiftLeft(zoom) == IF zoom = 0 THEN 1 ELSE 2 * ShiftLeft(zoom - 1)

\* lines 92-101: int(proj * self.tile_size) and int(proj) of both axes
PixelOf(proj) == <<PyInt(proj[1][1] * TileSize, proj[1][2]),
                   PyInt(proj[2][1] * TileSize, proj[2][2])>>
TileIndexOf(proj) == <<PyInt(proj[1][1], proj[1][2]), PyInt(proj[2][1], proj[2][2])>>

\* lines 85-101
ProjectBox(box) ==
    LET scale == ShiftLeft(box.zoom)
        tl == _project_with_scale(box.north_lat, box.west_lon, scale)
        br == _project_with_scale(box.south_lat, box.east_lon, scale)
    IN  [tl_proj |-> tl, br_proj |-> br,
         tl_pixel |-> PixelOf(tl), br_pixel |-> PixelOf(br),
         tl_tile |-> TileIndexOf(tl), br_tile |-> TileIndexOf(br),
         requested |-> {}]

\* lines 104-109 on the projected box
BoxInvalid(out) ==
    \/ Abs(out.tl_pixel[1] - out.br_pixel[1]) <= 0
    \/ out.br_pixel[2] - out.tl_pixel[2] <= 0

\* lines 121-124: the tile coordinates handed to _download_tile_async
RequestedTiles(out) ==
    (out.tl_tile[1]..out.br_tile[1]) \X (out.tl_tile[2]..out.br_tile[2])

\* lines 254-260: the box get_live_satellite_data passes on
LiveBox(lat, lon, analysis_radius) ==
    [caller |-> "get_live_satellite_data",
     north_lat |-> lat + analysis_radius, west_lon |-> lon - analysis_radius,
     south_lat |-> lat - analysis_radius, east_lon |-> lon + analysis_radius,
     zoom |-> LiveZoom]

\* a call of fetch_satellite_region, directly or by get_live_satellite_data
InitProject ==
    /\ FetchOff
    /\ AnalysisOff
    /\ HeatOff
    /\ RoutesOff
    /\ WaitOff
    /\ proj_pc = "called"
    /\ \/ proj_in \in [caller : {"fetch_satellite_region"}, north_lat : Latitudes,
                       west_lon : Longitudes, south_lat : Latitudes,
                       east_lon : Longitudes, zoom : Zooms]
       \/ \E lat \in Latitudes, lon \in Longitudes, r \in Radii :
              proj_in = LiveBox(lat, lon, r)
    /\ proj_out = NoProjection

\* lines 85-101
ProjectCorners ==
    /\ proj_pc = "called"
    /\ proj_out' = ProjectBox(proj_in)
    /\ proj_pc' = "projected"
    /\ UNCHANGED proj_in
    /\ UNCHANGED <<fetchVars, analysisVars, heatVars, routeVars, waitVars>>

\* lines 107-109
RejectProjected ==
    /\ proj_pc = "projected"
    /\ BoxInvalid(proj_out)
    /\ proj_pc' = "rejected"
    /\ UNCHANGED <<proj_in, proj_out>>
    /\ UNCHANGED <<fetchVars, analysisVars, heatVars, routeVars, waitVars>>

\* lines 112-124
RequestTiles ==
    /\ proj_pc = "projected"
    /\ ~BoxInvalid(proj_out)
    /\ proj_out' = [proj_out EXCEPT !.requested = RequestedTiles(proj_out)]
    /\ proj_pc' = "requested"
    /\ UNCHANGED proj_in
    /\ UNCHANGED <<fetchVars, analysisVars, heatVars, routeVars, waitVars>>

NextProject ==
    \/ ProjectCorners
    \/ RejectProjected
    \/ RequestTiles

SpecProject == InitProject /\ [][NextProject]_vars

\* ------------------------------------------------ claim C21
\* p < q for rationals with positive denominators
RatLess(p, q) == p[1] * q[2] < q[1] * p[2]

RatLeq2(p, q) == p[1] * q[2] <= q[1] * p[2]

\* the latitudes whose sine is not clamped
InClampRange(lat) ==
    /\ -HalfTurn * Deg <= 2 * lat
    /\ 2 * lat <= HalfTurn * Deg
    /\ Abs(SinE4(lat)) < SinClamp

\* the longitudes differ by at least one unit of the arithmetic
Resolved(lon1, lon2) == (lon2 - lon1) * E4 >= FullTurn * Deg

CoveringRange == (tl_tile_x..br_tile_x) \X (tl_tile_y..br_tile_y)

\* C22: one download is issued for each tile of the covering range and for
\* no other tile, and a download that has ended, failed or not, is never
\* issued again.
C22_OneRequestPerTile ==
    /\ [](tasks # NoTasks =>
            /\ {TileOf(k) : k \in DOMAIN tasks} = CoveringRange
            /\ \A j, k \in DOMAIN tasks : TileOf(j) = TileOf(k) => j = k)
    /\ [][tasks # NoTasks =>
            /\ DOMAIN tasks' = DOMAIN tasks
            /\ \A k \in DOMAIN tasks : tasks[k] # "pending" => tasks'[k] = tasks[k]]_vars

\* a fetch over two columns and two rows of tiles ended with a failed tile
C22_Witness ==
    /\ Finished
    /\ Failed # {}
    /\ Succeeded # {}
    /\ TilesAcross >= 2
    /\ TilesDown >= 2

\* C23: for every tile of the covering range the destination and the source
\* rectangle have the same width and height, the destination lies within
\* the canvas and the source within the tile, and the copy never fails.
C23_RectanglesAgree ==
    /\ \A k \in DOMAIN tasks :
          /\ img_x_r(k) - img_x_l(k) = cr_x_r(k) - cr_x_l(k)
          /\ img_y_r(k) - img_y_l(k) = cr_y_r(k) - cr_y_l(k)
          /\ 0 <= img_x_l(k) /\ img_x_l(k) <= img_x_r(k) /\ img_x_r(k) <= img_w
          /\ 0 <= img_y_l(k) /\ img_y_l(k) <= img_y_r(k) /\ img_y_r(k) <= img_h
          /\ 0 <= cr_x_l(k) /\ cr_x_l(k) <= cr_x_r(k) /\ cr_x_r(k) <= TileSize
          /\ 0 <= cr_y_l(k) /\ cr_y_l(k) <= cr_y_r(k) /\ cr_y_r(k) <= TileSize
    /\ ret # "raised"

\* C24: a returned mosaic holds at least one pixel copied from a downloaded
\* tile.
C24_MosaicHasImagery ==
    Stitched => \E p \in DOMAIN img : writes[p] # <<>>

C26_TilesInsideGrid ==
    (proj_pc = "requested" /\ proj_in.caller = "get_live_satellite_data") =>
        \A t \in proj_out.requested :
            /\ 0 <= t[1] /\ t[1] < ShiftLeft(proj_in.zoom)
            /\ 0 <= t[2] /\ t[2] < ShiftLeft(proj_in.zoom)

\* ================================================================
\* claims C27, C28, on the segmentation (SpecAnalysis)
\* ================================================================
\* C27: for every image of positive height and width, the image cropped by
\* analyze_image holds at least one full tile: the model is never given an
\* empty batch and the masks returned are never empty.
C27_AlwaysAFullTile ==
    /\ a_pc # "raised"
    /\ a_out.op = "analyze_image" =>
          /\ a_out.image.shape[1] >= ModelTile
          /\ a_out.image.shape[2] >= ModelTile
          /\ DOMAIN a_out.vegetation_mask.px # {}
          /\ DOMAIN a_out.building_mask.px # {}

\* C28: the two masks analyze_image returns are disjoint: no pixel is 1 in
\* both building_mask and vegetation_mask, whatever the model predicts.
C28_MasksDisjoint ==
    a_out.op = "analyze_image" =>
        \A p \in DOMAIN a_out.building_mask.px :
            ~(a_out.building_mask.px[p] = 1 /\ a_out.vegetation_mask.px[p] = 1)

\* a result in which both masks mark pixels and some pixel is in neither
C28_Witness ==
    /\ a_out.op = "analyze_image"
    /\ \E p \in DOMAIN a_out.building_mask.px : a_out.building_mask.px[p] = 1
    /\ \E p \in DOMAIN a_out.vegetation_mask.px : a_out.vegetation_mask.px[p] = 1
    /\ \E p \in DOMAIN a_out.building_mask.px :
          a_out.building_mask.px[p] = 0 /\ a_out.vegetation_mask.px[p] = 0

\* ================================================================
\* api/routes.py: the upload route, its background task and the cleanup
\* route, on the process-wide dict task_storage (SpecRoutes)
\* ================================================================
MaxUploads == 2    \* uploads accepted in one run

TaskIds == 1..MaxUploads

\* lines 66-73
NewEntry == [status |-> "uploaded", progress |-> 0,
             error_message |-> "None", result |-> "None"]

\* del d[k]
Remove(d, k) == [j \in DOMAIN d \ {k} |-> d[j]]

\* an answer of a route
Answer(handler, task_id, code) ==
    [handler |-> handler, task_id |-> task_id, code |-> code]

\* routes.py imports no LocalAnalysisService (lines 4-22): line 265 raises
NameError == "name 'LocalAnalysisService' is not defined"

\* lines 255-291.  No await is reached: the coroutine runs in one step of
\* the event loop.  With the entry present, lines 261-262 mark it as
\* processing, line 265 raises NameError and lines 288-291 record the
\* failure.  With the entry absent, line 261 raises KeyError, and line 290,
\* in the handler, raises KeyError again, which leaves the coroutine.
process_satellite_image(storage, task_id) ==
    IF task_id \notin DOMAIN storage
    THEN [storage |-> storage, ended |-> "unhandled"]
    ELSE [storage |-> [storage EXCEPT ![task_id].status = "failed",
                                      ![task_id].progress = 10,
                                      ![task_id].error_message = NameError],
          ended |-> "finished"]

\* lines 97-114
StatusCode(storage, task_id) ==
    IF task_id \notin DOMAIN storage THEN 404 ELSE 200

\* lines 126-165
ResultsCode(storage, task_id) ==
    IF task_id \notin DOMAIN storage THEN 404
    ELSE IF storage[task_id].status = "processing" THEN 202
    ELSE IF storage[task_id].status = "failed" THEN 200
    ELSE IF storage[task_id].status = "completed" /\ storage[task_id].result # "None"
    THEN 200
    ELSE 404

\* the server after start-up: no task, no uploaded file
InitRoutes ==
    /\ FetchOff
    /\ AnalysisOff
    /\ HeatOff
    /\ ProjectOff
    /\ WaitOff
    /\ task_storage = <<>>
    /\ upload_files = {}
    /\ background = <<>>
    /\ response = NoResponse

\* lines 32-85 for an image within the size limit: the file is saved, the
\* entry created and the background task scheduled; task ids are fresh
UploadAccepted ==
    /\ Len(background) < MaxUploads
    /\ LET task_id == Len(background) + 1
       IN  /\ upload_files' = upload_files \cup {task_id}
           /\ task_storage' = task_id :> NewEntry @@ task_storage
           /\ background' = Append(background, "scheduled")
           /\ response' = Answer("upload_satellite_image", task_id, 200)
    /\ UNCHANGED <<fetchVars, analysisVars, heatVars, projVars, waitVars>>

\* lines 40-41 and 48-49: no image, or an image above the size limit
UploadRejected ==
    /\ response' = Answer("upload_satellite_image", 0, 400)
    /\ UNCHANGED <<task_storage, upload_files, background>>
    /\ UNCHANGED <<fetchVars, analysisVars, heatVars, projVars, waitVars>>

\* the background task of an upload starts, after the response was sent
ProcessSatelliteImage(task_id) ==
    /\ background[task_id] = "scheduled"
    /\ LET r == process_satellite_image(task_storage, task_id)
       IN  /\ task_storage' = r.storage
           /\ background' = [background EXCEPT ![task_id] = r.ended]
    /\ UNCHANGED <<upload_files, response>>
    /\ UNCHANGED <<fetchVars, analysisVars, heatVars, projVars, waitVars>>

\* lines 93-120
GetAnalysisStatus(task_id) ==
    /\ response' = Answer("get_analysis_status", task_id,
                          StatusCode(task_storage, task_id))
    /\ UNCHANGED <<task_storage, upload_files, background>>
    /\ UNCHANGED <<fetchVars, analysisVars, heatVars, projVars, waitVars>>

\* lines 122-171
GetAnalysisResults(task_id) ==
    /\ response' = Answer("get_analysis_results", task_id,
                          ResultsCode(task_storage, task_id))
    /\ UNCHANGED <<task_storage, upload_files, background>>
    /\ UNCHANGED <<fetchVars, analysisVars, heatVars, projVars, waitVars>>

\* lines 231-232: no such task
CleanupUnknown(task_id) ==
    /\ task_id \notin DOMAIN task_storage
    /\ response' = Answer("cleanup_task", task_id, 404)
    /\ UNCHANGED <<task_storage, upload_files, background>>
    /\ UNCHANGED <<fetchVars, analysisVars, heatVars, projVars, waitVars>>

\* lines 234-246: the uploaded file is removed if it exists and the entry
\* is deleted, whatever the state of the background task
CleanupTask(task_id) ==
    /\ task_id \in DOMAIN task_storage
    /\ upload_files' = upload_files \ {task_id}
    /\ task_storage' = Remove(task_storage, task_id)
    /\ response' = Answer("cleanup_task", task_id, 200)
    /\ UNCHANGED background
    /\ UNCHANGED <<fetchVars, analysisVars, heatVars, projVars, waitVars>>

NextRoutes ==
    \/ UploadAccepted
    \/ UploadRejected
    \/ \E task_id \in DOMAIN background : ProcessSatelliteImage(task_id)
    \/ \E task_id \in TaskIds : GetAnalysisStatus(task_id)
    \/ \E task_id \in TaskIds : GetAnalysisResults(task_id)
    \/ \E task_id \in TaskIds : CleanupUnknown(task_id)
    \/ \E task_id \in TaskIds : CleanupTask(task_id)

SpecRoutes == InitRoutes /\ [][NextRoutes]_vars

\* C29 (SpecRoutes): process_satellite_image never ends with an unhandled
\* error, whenever cleanup_task runs for its task id, and once it has ended
\* an entry still in task_storage has status 'failed' or 'completed'.
C29_ProcessingNeverUnhandled ==
    \A task_id \in DOMAIN background :
        /\ background[task_id] # "unhandled"
        /\ (background[task_id] = "finished" /\ task_id \in DOMAIN task_storage) =>
              task_storage[task_id].status \in {"failed", "completed"}

\* ================================================================
\* services/twelve_labs_client.py: TwelveLabsClient.wait_for_processing
\* (SpecWait, and SpecWaitFair for termination)
\* ================================================================
MaxWait == 25        \* largest max_wait_time of a call, in seconds
MaxPollTime == 2     \* longest check_task_status, in seconds
MaxSleepLate == 1    \* longest delay of a wake-up after the 10 seconds

\* line 145
SleepSeconds == 10

\* task.status as the indexing service reports it
Statuses == {"pending", "indexing", "ready", "failed"}

\* mutant: the timeout is taken as soon as the limit is reached
Mut_TimedOut(elapsed_time, max_wait_time) == elapsed_time >= max_wait_time
\* line 141
TimedOut(elapsed_time, max_wait_time) == elapsed_time > max_wait_time

\* lines 130-145: what one pass of the loop does with the status polled
WaitStep(status, elapsed_time, max_wait_time) ==
    IF status = "ready" THEN [pc |-> "returned", result |-> "video_id"]
    ELSE IF status = "failed" THEN [pc |-> "raised", result |-> "Processing failed"]
    ELSE IF TimedOut(elapsed_time, max_wait_time)
    THEN [pc |-> "raised", result |-> "Processing timeout"]
    ELSE [pc |-> "sleep", result |-> ""]

\* line 125 and the first pass up to the await of line 128
InitWait ==
    /\ FetchOff
    /\ AnalysisOff
    /\ HeatOff
    /\ ProjectOff
    /\ RoutesOff
    /\ w_pc = "poll"
    /\ w_max_wait \in 0..MaxWait
    /\ w_elapsed = 0
    /\ w_status = ""
    /\ w_polls = 0
    /\ w_result = ""

\* line 128 returns a status after some time, then lines 130-145
PollReturns ==
    /\ w_pc = "poll"
    /\ \E status \in Statuses, took \in 0..MaxPollTime :
          LET elapsed_time == w_elapsed + took
              step == WaitStep(status, elapsed_time, w_max_wait)
          IN  /\ w_status' = status
              /\ w_elapsed' = elapsed_time
              /\ w_pc' = step.pc
              /\ w_result' = step.result
    /\ w_polls' = w_polls + 1
    /\ UNCHANGED w_max_wait
    /\ UNCHANGED <<fetchVars, analysisVars, heatVars, projVars, routeVars>>

\* line 128 raises (check_task_status re-raises, lines 119-121): the
\* exception leaves wait_for_processing
PollRaises ==
    /\ w_pc = "poll"
    /\ w_pc' = "raised"
    /\ w_result' = "check_task_status error"
    /\ w_polls' = w_polls + 1
    /\ UNCHANGED <<w_max_wait, w_elapsed, w_status>>
    /\ UNCHANGED <<fetchVars, analysisVars, heatVars, projVars, routeVars>>

\* line 145: the sleep ends after 10 seconds or a little later
SleepEnds ==
    /\ w_pc = "sleep"
    /\ \E late \in 0..MaxSleepLate : w_elapsed' = w_elapsed + SleepSeconds + late
    /\ w_pc' = "poll"
    /\ UNCHANGED <<w_max_wait, w_status, w_polls, w_result>>
    /\ UNCHANGED <<fetchVars, analysisVars, heatVars, projVars, routeVars>>

NextWait ==
    \/ PollReturns
    \/ PollRaises
    \/ SleepEnds

SpecWait == InitWait /\ [][NextWait]_vars

\* every status check ends, and the event loop wakes every sleeper
SpecWaitFair ==
    /\ SpecWait
    /\ WF_vars(PollReturns \/ PollRaises)
    /\ WF_vars(SleepEnds)

WaitEnded == w_pc \in {"returned", "raised"}

\* C30 (SpecWaitFair): wait_for_processing ends; it returns the video id at
\* the poll that observes 'ready', raises at the poll that observes
\* 'failed', raises the timeout at the first other poll after which more
\* than max_wait_time has elapsed, and polls no more after any of these.
C30_WaitTerminates ==
    /\ <>WaitEnded
    /\ [](w_pc = "returned" => w_status = "ready" /\ w_result = "video_id")
    /\ [](w_result = "Processing failed" => w_pc = "raised" /\ w_status = "failed")
    /\ [](w_result = "Processing timeout" =>
             /\ w_pc = "raised"
             /\ w_status \notin {"ready", "failed"}
             /\ w_elapsed > w_max_wait)
    /\ [](w_pc = "sleep" =>
             /\ w_status \notin {"ready", "failed"}
             /\ w_elapsed <= w_max_wait)
    /\ [][WaitEnded => UNCHANGED waitVars]_vars

\* a wait that slept at least twice and then timed out
C30_Witness ==
    /\ w_result = "Processing timeout"
    /\ w_polls >= 3
    /\ w_max_wait >= SleepSeconds

====
